---- MODULE Spec2Model ----
(***************************************************************************)
(* The realtime voice-session manager of japanese-roleplay-app.            *)
(*                                                                         *)
(* The repository holds the manager as several React hooks that share one  *)
(* shape (observable SessionState, four ref cells, connect / disconnect /  *)
(* toggleMute) and differ in details.  The hook in use is the variable     *)
(* `variant`, fixed when the hook is created:                              *)
(*   "Final"     src/hooks/useRealtimeFinal.ts      useRealtimeFinal       *)
(*   "WebRTC"    src/hooks/useRealtimeWebRTC.ts     useRealtimeWebRTC      *)
(*   "Fixed"     src/hooks/useRealtimeFixed.ts      useRealtimeFixed       *)
(*   "Console"   src/lib/agents/roleplayAgent.ts    useRealtimeConsole     *)
(*   "DirectAPI" src/hooks/useRealtimeSession.ts    useRealtimeDirectAPI   *)
(*                                                                         *)
(* Every call of connect() is an attempt 1..MaxAttempts: an async function *)
(* suspended at one of its awaits (pos), with the objects it created in    *)
(* its closure (its transport, media stream, control channel, audio sink). *)
(* The four refs of the hook name the attempt whose object they hold, or 0 *)
(* for null.                                                               *)
(***************************************************************************)
EXTENDS Integers, Sequences, FiniteSets

\* ------------------------------------------------------------------ bounds
MaxAttempts == 2        \* connect() calls in one behaviour
MaxHistory  == 2        \* transcript entries kept
MaxTime     == 2        \* credential expiry, in Unix seconds, ranges 1..MaxTime
MaxClears   == 2        \* input_audio_buffer.clear frames sent on one channel

\* ------------------------------------------------------- program constants
MsPerSecond == 1000     \* Date.now() / 1000

Variants  == {"Final", "WebRTC", "Fixed", "Console", "DirectAPI"}
Attempts  == 1..MaxAttempts
Scenarios == {"restaurant", "shopping"}
NoScenario == "null"
NoError    == "null"

\* error.message values set by the hooks
ErrTokenFetch   == "Failed to get token"
ErrTokenFormat  == "Invalid token format"
ErrTokenExpired == "Ephemeral key expired"
ErrTypeError    == "TypeError"
ErrRangeError   == "RangeError"
ErrNoApiKey     == "API key is not set"
ErrMedia        == "NotAllowedError"
ErrInvalidState == "InvalidStateError"
ErrOffer        == "Failed to create SDP offer"
ErrApi          == "API Error"
ErrApiExpired   == "Ephemeral token expired"
ErrNetwork      == "Failed to fetch"
ErrAnswer       == "Failed to set remote description"
ErrServer       == "Server error"

\* shapes of the credential response body: client_secret is an object with
\* value and expires_at, a scalar string, or absent
TokenShapes == {"object", "string", "missing"}

\* the local clock, in milliseconds, on and between whole seconds
Clocks == {MsPerSecond * k + h : k \in 1..MaxTime, h \in {0, 500}}

VARIABLES
  variant,      \* the hook in use
  isConnecting, isConnected, error, isMuted, scenario, history,  \* SessionState
  pcRef, dcRef, audioRef, streamRef,   \* ref cells: an attempt, or 0 for null
  renderedMuted, \* state.isMuted as captured by toggleMute at the last render
  calls,        \* number of connect() calls so far
  pos,          \* per attempt: the await it is suspended at
  scen,         \* per attempt: the scenario argument in its closure
  cred,         \* per attempt: the credential its closure holds: "none",
                \*   "valid" or "expired" (expiry <= clock when it was received)
  trans,        \* per attempt: its RTCPeerConnection
  stream,       \* per attempt: its local MediaStream: "none", "live" (track
                \*   enabled), "muted" (track disabled) or "stopped"
  chan,         \* per attempt: its RTCDataChannel readyState
  sink,         \* per attempt: its audio element
  remoteSet,    \* per attempt: setRemoteDescription has resolved
  localConnected, \* per attempt: the `let isConnected` of the WebRTC hook
  closeEvt,     \* per attempt: a close event of its channel is queued
  timer,        \* per attempt: the greeting timeout of the DirectAPI hook
  credReq,      \* per attempt: requests sent to /api/session
  negReq,       \* per attempt: requests sent to the negotiation endpoint
  cfgSent,      \* per attempt: session.update frames sent on its channel
  clearSent,    \* per attempt: input_audio_buffer.clear frames sent
  greetSent,    \* per attempt: frames sent by the greeting timeout
  badSend,      \* per attempt: send() was called on a channel that is not open
  envKey,       \* NEXT_PUBLIC_OPENAI_API_KEY is set (read by the DirectAPI hook)
  stale,        \* per attempt: disconnect() was called while it was suspended
  lastFrame     \* the type of the last frame handed to dc.onmessage, or "none"

stateVars  == <<isConnecting, isConnected, error, isMuted, scenario, history>>
refVars    == <<pcRef, dcRef, audioRef, streamRef>>
objVars    == <<trans, stream, chan, sink>>
wireVars   == <<credReq, negReq, cfgSent, clearSent, greetSent, badSend>>
vars == <<variant, envKey, stale, lastFrame, stateVars, refVars, renderedMuted, calls, pos, scen, cred,
          objVars, remoteSet, localConnected, closeEvt, timer, wireVars>>

\* ----------------------------------------------------------------- state
Init ==
  /\ variant \in Variants
  /\ envKey \in (IF variant = "DirectAPI" THEN BOOLEAN ELSE {TRUE})
  /\ isConnecting = FALSE
  /\ isConnected = FALSE
  /\ error = NoError
  /\ isMuted = FALSE
  /\ scenario = NoScenario
  /\ history = <<>>
  /\ pcRef = 0 /\ dcRef = 0 /\ audioRef = 0 /\ streamRef = 0
  /\ renderedMuted = FALSE
  /\ calls = 0
  /\ pos = [a \in Attempts |-> "new"]
  /\ scen = [a \in Attempts |-> NoScenario]
  /\ cred = [a \in Attempts |-> "none"]
  /\ trans = [a \in Attempts |-> "none"]
  /\ stream = [a \in Attempts |-> "none"]
  /\ chan = [a \in Attempts |-> "none"]
  /\ sink = [a \in Attempts |-> "none"]
  /\ remoteSet = [a \in Attempts |-> FALSE]
  /\ localConnected = [a \in Attempts |-> FALSE]
  /\ closeEvt = [a \in Attempts |-> FALSE]
  /\ timer = [a \in Attempts |-> "none"]
  /\ credReq = [a \in Attempts |-> 0]
  /\ negReq = [a \in Attempts |-> 0]
  /\ cfgSent = [a \in Attempts |-> 0]
  /\ clearSent = [a \in Attempts |-> 0]
  /\ greetSent = [a \in Attempts |-> 0]
  /\ badSend = [a \in Attempts |-> FALSE]
  /\ stale = [a \in Attempts |-> FALSE]
  /\ lastFrame = "none"

\* the values of pos at which connect() is suspended
Awaits == {"token", "media", "offer", "ice", "negotiate", "remote"}

attemptVars == <<scen, cred, remoteSet, localConnected, timer>>

\* ------------------------------------------------- differences of the hooks
\* connect() starts with a request to /api/session
FetchesToken(v) == v # "DirectAPI"

\* getUserMedia is awaited before the transport is created
MediaFirst(v) == v = "WebRTC"

\* the hook keeps audioRef and streamRef
KeepsMediaRefs(v) == v # "Console"

\* connect() awaits gathering (or the 3 s timeout) before the negotiation request
WaitsForIce(v) == v \in {"Final", "DirectAPI"}

\* the catch block of connect() releases what the refs hold
CatchCleans(v) == v # "Console"

\* the channel has an onclose handler
HasOnClose(v) == v = "WebRTC"

\* toggleMute sends input_audio_buffer.clear on muting
MuteClears(v) == v \in {"WebRTC", "DirectAPI"}

\* onopen schedules the greeting timeout
HasGreeting(v) == v = "DirectAPI"

\* ------------------------------------------------------ handles and objects
\* The refs and the objects they may name, as one value that the steps of a
\* handler transform in order; Commit makes it the next state.
Handles ==
  [pcRef |-> pcRef, dcRef |-> dcRef, audioRef |-> audioRef, streamRef |-> streamRef,
   trans |-> trans, stream |-> stream, chan |-> chan, sink |-> sink,
   closeEvt |-> closeEvt]

Commit(h) ==
  /\ pcRef' = h.pcRef /\ dcRef' = h.dcRef
  /\ audioRef' = h.audioRef /\ streamRef' = h.streamRef
  /\ trans' = h.trans /\ stream' = h.stream /\ chan' = h.chan /\ sink' = h.sink
  /\ closeEvt' = h.closeEvt

\* dc.close(), and what pc.close() does to the channel of the transport: a
\* channel that is connecting or open becomes closed and its close event is
\* queued (delivered only to a hook that registered onclose)
CloseChannel(h, a) ==
  IF h.chan[a] \in {"connecting", "open"}
  THEN [h EXCEPT !.chan[a] = "closed",
                 !.closeEvt[a] = HasOnClose(variant)]
  ELSE h

\* pc.close()
CloseTransport(h, a) ==
  [CloseChannel(h, a) EXCEPT !.trans[a] = "closed"]

\* stream.getTracks().forEach(track => track.stop())
StopTracks(h, a) == [h EXCEPT !.stream[a] = "stopped"]

\* audio.remove()
RemoveSink(h, a) == [h EXCEPT !.sink[a] = "removed"]

\* the cleanup of the catch block of connect(): what the refs hold, not what
\* the failing attempt created; dcRef is not touched
CatchCleanup(h) ==
  IF ~CatchCleans(variant) THEN h
  ELSE
    LET h1 == IF h.pcRef # 0
              THEN [CloseTransport(h, h.pcRef) EXCEPT !.pcRef = 0] ELSE h
        h2 == IF h1.streamRef # 0
              THEN [StopTracks(h1, h1.streamRef) EXCEPT !.streamRef = 0] ELSE h1
        h3 == IF h2.audioRef # 0
              THEN [RemoveSink(h2, h2.audioRef) EXCEPT !.audioRef = 0] ELSE h2
    IN h3

\* the catch block of connect(): the attempt ends (its closure, with the
\* scenario and the credential, is gone), isConnecting is reset and the
\* message recorded; isConnected, scenario, isMuted and history are kept
Catch(a, h, err) ==
  /\ pos' = [pos EXCEPT ![a] = "failed"]
  /\ cred' = [cred EXCEPT ![a] = "none"]
  /\ scen' = [scen EXCEPT ![a] = NoScenario]
  /\ isConnecting' = FALSE
  /\ error' = err
  /\ UNCHANGED <<isConnected, isMuted, scenario, history>>
  /\ Commit(CatchCleanup(h))

\* new RTCPeerConnection, pcRef; the audio element, audioRef
CreateTransport(h, a) ==
  [h EXCEPT !.trans[a] = "open", !.pcRef = a]

CreateSink(h, a) ==
  [h EXCEPT !.sink[a] = "attached",
            !.audioRef = IF KeepsMediaRefs(variant) THEN a ELSE h.audioRef]

\* Math.floor(Date.now() / 1000)
UnixSeconds(ms) == ms \div MsPerSecond

\* What connect() makes of the body of a successful credential response:
\* "ok", or the message of the error it throws.
TokenOutcome(v, shape, expiresAt, nowMs) ==
  CASE v = "Final" ->
         IF shape = "object" THEN "ok"
         ELSE IF shape = "string" THEN "ok"
         ELSE ErrTokenFormat
    [] v = "WebRTC" ->
         \* new Date(expiresAt * 1000).toISOString() throws on undefined;
         \* an expired key is logged and used
         IF shape # "object" THEN ErrRangeError ELSE "ok"
    [] v = "Fixed" ->
         IF shape # "object" THEN ErrTypeError
         ELSE IF expiresAt - UnixSeconds(nowMs) <= 0 THEN ErrTokenExpired
         ELSE "ok"
    [] OTHER ->
         \* client_secret.value.substring
         IF shape # "object" THEN ErrTypeError ELSE "ok"

\* the credential is expired at the clock reading: expiry <= now
IsExpired(expiresAt, nowMs) == expiresAt * MsPerSecond <= nowMs

\* ------------------------------------------------------------- connect()
\* The synchronous run of connect() from the transport to the getUserMedia
\* call (media first in the WebRTC hook: only the call).
BeforeMedia(h, a) ==
  IF MediaFirst(variant) THEN h
  ELSE CreateSink(CreateTransport(h, a), a)

\* connect(scenario) up to its first await.  No hook checks isConnecting or
\* isConnected before starting.
Connect(s) ==
  /\ calls < MaxAttempts
  /\ LET a == calls + 1 IN
     /\ calls' = a
     /\ scenario' = s
     /\ UNCHANGED <<isConnected, isMuted, history, cred>>
     /\ IF FetchesToken(variant)
        THEN /\ isConnecting' = TRUE
             /\ error' = NoError
             /\ scen' = [scen EXCEPT ![a] = s]
             /\ credReq' = [credReq EXCEPT ![a] = @ + 1]
             /\ pos' = [pos EXCEPT ![a] = "token"]
             /\ UNCHANGED <<refVars, objVars, closeEvt>>
        ELSE IF ~envKey
        THEN \* the DirectAPI hook without its key throws at once
             /\ UNCHANGED <<credReq, scen>>
             /\ pos' = [pos EXCEPT ![a] = "failed"]
             /\ isConnecting' = FALSE
             /\ error' = ErrNoApiKey
             /\ Commit(CatchCleanup(Handles))
        ELSE /\ UNCHANGED credReq
             /\ isConnecting' = TRUE
             /\ error' = NoError
             /\ scen' = [scen EXCEPT ![a] = s]
             /\ pos' = [pos EXCEPT ![a] = "media"]
             /\ Commit(BeforeMedia(Handles, a))
  /\ UNCHANGED <<variant, envKey, stale, lastFrame, renderedMuted, remoteSet, localConnected,
                 timer, negReq, cfgSent, clearSent, greetSent, badSend>>

\* A credential endpoint that answers with the body of the issuing authority
\* whatever its status, and with an empty success when it has no API key.
SessionRouteAlwaysOk(hasKey, upstream) ==
  IF upstream = "network" THEN "status" ELSE "ok"

\* GET /api/session: "status" (a non-success status) without an API key, when
\* the issuing authority answers non-success (its status is passed on) and
\* when the request to it throws (caught, 500); "ok" with its body otherwise.
SessionRoute(hasKey, upstream) ==
  IF ~hasKey THEN "status"
  ELSE IF upstream = "network" THEN "status"
  ELSE IF upstream = "status" THEN "status"
  ELSE "ok"

\* what fetch('/api/session') gives connect(): it rejects when the endpoint
\* cannot be reached, else it resolves with the endpoint's response
CredentialFetch(reachable, hasKey, upstream) ==
  IF ~reachable THEN "network" ELSE SessionRoute(hasKey, upstream)

\* The credential request completes: fetch rejects ("network"), answers with
\* a non-success status ("status") or with a body of some shape.
TokenResponse(a, result, shape, expiresAt, nowMs) ==
  /\ pos[a] = "token"
  /\ UNCHANGED <<variant, envKey, stale, lastFrame, renderedMuted, calls, remoteSet,
                 localConnected, timer, wireVars>>
  /\ IF result # "ok"
     THEN Catch(a, Handles, IF result = "network" THEN ErrNetwork ELSE ErrTokenFetch)
     ELSE LET out == TokenOutcome(variant, shape, expiresAt, nowMs) IN
          IF out # "ok"
          THEN Catch(a, Handles, out)
          ELSE /\ cred' = [cred EXCEPT ![a] =
                             IF IsExpired(expiresAt, nowMs) THEN "expired" ELSE "valid"]
               /\ pos' = [pos EXCEPT ![a] = "media"]
               /\ Commit(BeforeMedia(Handles, a))
               /\ UNCHANGED <<stateVars, scen>>

\* pc.createDataChannel('oai-events'), dcRef
CreateChannel(h, a) ==
  [h EXCEPT !.chan[a] = "connecting", !.dcRef = a]

\* getUserMedia resolved with a stream whose track is enabled: streamRef
\* (where the hook keeps one)
GotStream(h, a) ==
  [h EXCEPT !.stream[a] = "live",
            !.streamRef = IF KeepsMediaRefs(variant) THEN a ELSE h.streamRef]

\* getUserMedia settles.  On success connect() runs on to createOffer:
\* pc.addTrack and pc.createDataChannel throw InvalidStateError on a
\* transport that was closed in the meantime.
MediaResult(a, granted) ==
  /\ pos[a] = "media"
  /\ UNCHANGED <<variant, envKey, stale, lastFrame, renderedMuted, calls, remoteSet,
                 localConnected, timer, wireVars>>
  /\ IF ~granted
     THEN Catch(a, Handles, ErrMedia)
     ELSE LET h1 == GotStream(Handles, a)
              h2 == IF MediaFirst(variant)
                    THEN CreateSink(CreateTransport(h1, a), a)
                    ELSE h1
          IN IF h2.trans[a] = "closed"
             THEN Catch(a, h2, ErrInvalidState)
             ELSE /\ pos' = [pos EXCEPT ![a] = "offer"]
                  /\ Commit(CreateChannel(h2, a))
                  /\ UNCHANGED <<stateVars, scen, cred>>

\* fetch(url, { method: 'POST', body: sdp, Authorization: Bearer key })
SendOffer(a) ==
  /\ negReq' = [negReq EXCEPT ![a] = @ + 1]
  /\ pos' = [pos EXCEPT ![a] = "negotiate"]

\* createOffer and setLocalDescription settle; they reject on a closed transport
OfferDone(a, ok) ==
  /\ pos[a] = "offer"
  /\ UNCHANGED <<variant, envKey, stale, lastFrame, renderedMuted, calls, remoteSet,
                 localConnected, timer,
                 credReq, cfgSent, clearSent, greetSent, badSend>>
  /\ IF trans[a] = "closed" \/ ~ok
     THEN /\ Catch(a, Handles, IF trans[a] = "closed" THEN ErrInvalidState ELSE ErrOffer)
          /\ UNCHANGED negReq
     ELSE /\ UNCHANGED <<stateVars, refVars, objVars, closeEvt, scen, cred>>
          /\ IF WaitsForIce(variant)
             THEN /\ pos' = [pos EXCEPT ![a] = "ice"]
                  /\ UNCHANGED negReq
             ELSE SendOffer(a)

\* Promise.race([iceGatheringComplete, timeout 3000]) settles by gathering
IceComplete(a) ==
  /\ pos[a] = "ice"
  /\ trans[a] = "open"
  /\ SendOffer(a)
  /\ UNCHANGED <<variant, envKey, stale, lastFrame, stateVars, refVars, objVars, closeEvt,
                 renderedMuted, calls, attemptVars,
                 credReq, cfgSent, clearSent, greetSent, badSend>>

\* ... or by the timeout, whatever the transport's state
IceTimeout(a) ==
  /\ pos[a] = "ice"
  /\ SendOffer(a)
  /\ UNCHANGED <<variant, envKey, stale, lastFrame, stateVars, refVars, objVars, closeEvt,
                 renderedMuted, calls, attemptVars,
                 credReq, cfgSent, clearSent, greetSent, badSend>>

\* bodies of a non-success negotiation response: JSON whose error.message is
\* 'Ephemeral token expired', other JSON, or text that is not JSON
ErrorBodies == {"expired", "other", "text"}

\* What the try block that parses the error body throws, "none" if nothing:
\* JSON.parse throws on text; the Final and Fixed hooks throw the expiry
\* message; the Final hook then throws the API message.
ThrownInTry(v, body) ==
  CASE body = "text" -> "SyntaxError"
    [] body = "expired" /\ v \in {"Final", "Fixed"} -> ErrApiExpired
    [] v = "Final" -> ErrApi
    [] OTHER -> "none"

\* The message connect() ends up throwing for a non-success negotiation
\* response.  The catch of that try block throws the generic message in the
\* Final hook and swallows the error in the others, where the generic throw
\* follows the try statement.
NegotiationError(v, body) ==
  IF v = "Final" /\ ThrownInTry(v, body) # "none"
  THEN ErrApi
  ELSE ErrApi

\* The negotiation request completes.
NegotiationResponse(a, result, body) ==
  /\ pos[a] = "negotiate"
  /\ UNCHANGED <<variant, envKey, stale, lastFrame, renderedMuted, calls, remoteSet,
                 localConnected, timer, wireVars>>
  /\ IF result # "ok"
     THEN Catch(a, Handles, IF result = "network" THEN ErrNetwork
                            ELSE NegotiationError(variant, body))
     ELSE /\ pos' = [pos EXCEPT ![a] = "remote"]
          /\ UNCHANGED <<stateVars, refVars, objVars, closeEvt, scen, cred>>

\* pc.setRemoteDescription(answer) settles; it rejects on a closed transport
\* or an answer it cannot apply.  On success connect() returns.
RemoteDescDone(a, ok) ==
  /\ pos[a] = "remote"
  /\ UNCHANGED <<variant, envKey, stale, lastFrame, renderedMuted, calls,
                 localConnected, timer, wireVars>>
  /\ IF trans[a] = "closed" \/ ~ok
     THEN /\ Catch(a, Handles, IF trans[a] = "closed" THEN ErrInvalidState ELSE ErrAnswer)
          /\ UNCHANGED remoteSet
     ELSE /\ pos' = [pos EXCEPT ![a] = "resolved"]
          /\ cred' = [cred EXCEPT ![a] = "none"]
          /\ remoteSet' = [remoteSet EXCEPT ![a] = TRUE]
          /\ UNCHANGED <<stateVars, refVars, objVars, closeEvt, scen>>

\* ------------------------------------------------------ channel callbacks
\* A dc.onopen that sends session.update twice.
\* roleplayScenarios[s].instructions: each scenario has its own text
Instructions(s) == <<"instructions", s>>

\* the session.update that dc.onopen sends; s is the scenario argument of the
\* connect() call whose closure the handler belongs to
SessionConfig(v, s) ==
  LET vad == [type |-> "server_vad", threshold |-> "0.5",
              prefix_padding_ms |-> 300, silence_duration_ms |-> 200]
      session == [instructions |-> Instructions(s),
                  voice |-> "alloy",
                  input_audio_transcription |-> [model |-> "whisper-1"],
                  turn_detection |-> IF v = "Console"
                                     THEN [type |-> "server_vad"]
                                     ELSE vad]
  IN [type |-> "session.update", session |-> session]

ChannelOpenSendsTwice(a) ==
  /\ chan[a] = "connecting"
  /\ remoteSet[a]
  /\ trans[a] = "open"
  /\ chan' = [chan EXCEPT ![a] = "open"]
  /\ isConnecting' = FALSE
  /\ isConnected' = TRUE
  /\ localConnected' = [localConnected EXCEPT ![a] = IF HasOnClose(variant) THEN TRUE ELSE @]
  /\ cfgSent' = [cfgSent EXCEPT ![a] = @ + 2]
  /\ timer' = [timer EXCEPT ![a] = IF HasGreeting(variant) THEN "pending" ELSE @]
  /\ UNCHANGED <<variant, envKey, stale, lastFrame, error, isMuted, scenario, history, refVars,
                 trans, stream, sink, closeEvt, renderedMuted, calls,
                 pos, scen, cred, remoteSet,
                 credReq, negReq, clearSent, greetSent, badSend>>

\* dc.onopen: the channel of attempt a opens (after the answer was applied).
\* setState, then dc.send(session.update); the DirectAPI hook also starts
\* the 1 s greeting timeout.
ChannelOpen(a) ==
  /\ chan[a] = "connecting"
  /\ remoteSet[a]
  /\ trans[a] = "open"
  /\ chan' = [chan EXCEPT ![a] = "open"]
  /\ isConnecting' = FALSE
  /\ isConnected' = TRUE
  /\ localConnected' = [localConnected EXCEPT ![a] = IF HasOnClose(variant) THEN TRUE ELSE @]
  /\ cfgSent' = [cfgSent EXCEPT ![a] = @ + 1]
  /\ timer' = [timer EXCEPT ![a] = IF HasGreeting(variant) THEN "pending" ELSE @]
  /\ UNCHANGED <<variant, envKey, stale, lastFrame, error, isMuted, scenario, history, refVars,
                 trans, stream, sink, closeEvt, renderedMuted, calls,
                 pos, scen, cred, remoteSet,
                 credReq, negReq, clearSent, greetSent, badSend>>

\* Inbound frames of the control channel.  type "malformed" is a frame that
\* JSON.parse rejects.  itemType and role are those of data.item; field is
\* the property that carries a non-empty text ("none": no text).
MessageTypes ==
  {"malformed", "session.created", "session.updated",
   "conversation.item.created", "input_audio_transcription.completed",
   "response.text.delta", "response.audio_transcript.delta",
   "response.text.done", "response.audio_transcript.done",
   "error", "rate_limits.updated"}
Roles == {"user", "assistant", "system"}
Messages ==
  [type : {"conversation.item.created"}, itemType : {"message", "function_call"},
   role : Roles, field : {"text", "transcript", "none"}]
  \cup
  [type : {"input_audio_transcription.completed", "response.text.done",
           "response.audio_transcript.done"}, itemType : {"none"},
   role : {"none"}, field : {"text", "transcript", "none"}]
  \cup
  [type : MessageTypes \ {"conversation.item.created",
                          "input_audio_transcription.completed",
                          "response.text.done", "response.audio_transcript.done"},
   itemType : {"none"}, role : {"none"}, field : {"none"}]

Entry(role) == [role |-> role, content |-> "text"]

\* A dc.onmessage that reports a frame it cannot parse as a session error.
DispatchParseFailureAsError(v, m) ==
  IF m.type = "malformed" THEN <<"error">> ELSE <<"ignore">>

\* A dc.onmessage that appends an entry for every incremental delta.
DispatchDeltaAppends(v, m) ==
  IF m.type \in {"response.text.delta", "response.audio_transcript.delta"}
  THEN <<"append", "assistant">> ELSE <<"ignore">>

\* What dc.onmessage of hook v does with frame m: <<"append", role>>,
\* <<"error">>, <<"throw">> (JSON.parse outside any try) or <<"ignore">>.
Dispatch(v, m) ==
  IF m.type = "malformed"
  THEN (IF v = "Console" THEN <<"throw">> ELSE <<"ignore">>)
  ELSE CASE v \in {"Final", "DirectAPI"} ->
         CASE m.type = "conversation.item.created" ->
                IF m.itemType = "message" /\ m.field # "none"
                THEN <<"append", m.role>> ELSE <<"ignore">>
           [] m.type = "input_audio_transcription.completed" ->
                IF m.field = "transcript" THEN <<"append", "user">> ELSE <<"ignore">>
           [] m.type = "response.text.done" ->
                IF m.field = "text" \/ (v = "Final" /\ m.field = "transcript")
                THEN <<"append", "assistant">> ELSE <<"ignore">>
           [] m.type = "response.audio_transcript.done" ->
                IF m.field = "transcript" \/ (v = "Final" /\ m.field = "text")
                THEN <<"append", "assistant">> ELSE <<"ignore">>
           [] m.type = "error" -> <<"error">>
           [] OTHER -> <<"ignore">>
    [] v = "WebRTC" ->
         CASE m.type = "conversation.item.created" ->
                IF m.itemType = "message" /\ m.field # "none"
                THEN <<"append", m.role>> ELSE <<"ignore">>
           [] m.type = "response.audio_transcript.done" ->
                IF m.field = "transcript" THEN <<"append", "assistant">> ELSE <<"ignore">>
           [] m.type = "error" -> <<"error">>
           [] OTHER -> <<"ignore">>
    [] v = "Fixed" ->
         CASE m.type = "conversation.item.created" ->
                IF m.field # "none" THEN <<"append", m.role>> ELSE <<"ignore">>
           [] m.type = "error" -> <<"error">>
           [] OTHER -> <<"ignore">>
    [] OTHER ->
         \* Console: content[0].transcript only; an error frame is logged
         CASE m.type = "conversation.item.created" ->
                IF m.field = "transcript" THEN <<"append", m.role>> ELSE <<"ignore">>
           [] OTHER -> <<"ignore">>

\* A dc.onmessage that puts a new entry in front of the transcript.
OnMessagePrepends(a, m) ==
  /\ chan[a] = "open"
  /\ LET d == Dispatch(variant, m) IN
     /\ d[1] = "append" => Len(history) < MaxHistory
     /\ history' = IF d[1] = "append" THEN <<Entry(d[2])>> \o history ELSE history
     /\ error' = IF d[1] = "error" THEN ErrServer ELSE error
  /\ lastFrame' = m.type
  /\ UNCHANGED <<variant, envKey, stale, isConnecting, isConnected, isMuted, scenario,
                 refVars, objVars, closeEvt, renderedMuted, calls, pos,
                 attemptVars, wireVars>>

\* dc.onmessage: a frame arrives on the open channel of attempt a
OnMessage(a, m) ==
  /\ chan[a] = "open"
  /\ LET d == Dispatch(variant, m) IN
     /\ d[1] = "append" => Len(history) < MaxHistory
     /\ history' = IF d[1] = "append" THEN Append(history, Entry(d[2])) ELSE history
     /\ error' = IF d[1] = "error" THEN ErrServer ELSE error
  /\ lastFrame' = m.type
  /\ UNCHANGED <<variant, envKey, stale, isConnecting, isConnected, isMuted, scenario,
                 refVars, objVars, closeEvt, renderedMuted, calls, pos,
                 attemptVars, wireVars>>

\* The remote end or the network closes the open channel of attempt a.
RemoteClose(a) ==
  /\ chan[a] = "open"
  /\ Commit(CloseChannel(Handles, a))
  /\ UNCHANGED <<variant, envKey, stale, lastFrame, stateVars, renderedMuted, calls, pos,
                 attemptVars, wireVars>>

\* dc.onclose: the queued close event of the channel of attempt a is delivered
OnClose(a) ==
  /\ closeEvt[a]
  /\ closeEvt' = [closeEvt EXCEPT ![a] = FALSE]
  /\ isConnected' = IF localConnected[a] THEN FALSE ELSE isConnected
  /\ UNCHANGED <<variant, envKey, stale, lastFrame, isConnecting, error, isMuted, scenario, history,
                 refVars, objVars, renderedMuted, calls, pos, attemptVars, wireVars>>

\* The greeting timeout set by onopen fires: two dc.send calls on the
\* channel of the closure; send throws on a channel that is not open.
GreetingTimer(a) ==
  /\ timer[a] = "pending"
  /\ timer' = [timer EXCEPT ![a] = "fired"]
  /\ IF chan[a] = "open"
     THEN /\ greetSent' = [greetSent EXCEPT ![a] = @ + 2]
          /\ UNCHANGED badSend
     ELSE /\ badSend' = [badSend EXCEPT ![a] = TRUE]
          /\ UNCHANGED greetSent
  /\ UNCHANGED <<variant, envKey, stale, lastFrame, stateVars, refVars, objVars, closeEvt,
                 renderedMuted, calls, pos, scen, cred, remoteSet,
                 localConnected, credReq, negReq, cfgSent, clearSent>>

\* ------------------------------------------------------------ disconnect()
\* A disconnect() that closes the channel and the transport and forgets the
\* other two handles without releasing them.
ReleaseChannelAndTransportOnly(h) ==
  LET h1 == IF h.dcRef # 0
            THEN [CloseChannel(h, h.dcRef) EXCEPT !.dcRef = 0] ELSE h
      h2 == IF h1.pcRef # 0
            THEN [CloseTransport(h1, h1.pcRef) EXCEPT !.pcRef = 0] ELSE h1
  IN h2

\* the handles disconnect() releases, in the order of its statements
ReleaseOrder == <<"channel", "transport", "tracks", "sink">>

\* one statement of disconnect(): if the ref is set, release what it holds,
\* clear the ref, and note the release in the log of this run
ReleaseOne(r, kind) ==
  CASE kind = "channel" ->
         IF r.h.dcRef # 0
         THEN [h |-> [CloseChannel(r.h, r.h.dcRef) EXCEPT !.dcRef = 0],
               log |-> Append(r.log, kind)]
         ELSE r
    [] kind = "transport" ->
         IF r.h.pcRef # 0
         THEN [h |-> [CloseTransport(r.h, r.h.pcRef) EXCEPT !.pcRef = 0],
               log |-> Append(r.log, kind)]
         ELSE r
    [] kind = "tracks" ->
         IF r.h.streamRef # 0
         THEN [h |-> [StopTracks(r.h, r.h.streamRef) EXCEPT !.streamRef = 0],
               log |-> Append(r.log, kind)]
         ELSE r
    [] kind = "sink" ->
         IF r.h.audioRef # 0
         THEN [h |-> [RemoveSink(r.h, r.h.audioRef) EXCEPT !.audioRef = 0],
               log |-> Append(r.log, kind)]
         ELSE r

\* the statements of disconnect() before its setState, run in their order
ReleaseRun(h) ==
  LET r0 == [h |-> h, log |-> <<>>]
      r1 == ReleaseOne(r0, ReleaseOrder[1])
      r2 == ReleaseOne(r1, ReleaseOrder[2])
      r3 == ReleaseOne(r2, ReleaseOrder[3])
      r4 == ReleaseOne(r3, ReleaseOrder[4])
  IN r4

\* the releases of disconnect(), in its order: channel, transport, tracks, sink
Release(h) == ReleaseRun(h).h

\* disconnect(): releases what the refs hold, then resets isConnected,
\* scenario and history; isConnecting, error and isMuted are kept, and a
\* connect() that is suspended is not told.
Disconnect ==
  /\ Commit(Release(Handles))
  /\ isConnected' = FALSE
  /\ scenario' = NoScenario
  /\ history' = <<>>
  /\ stale' = [a \in Attempts |-> stale[a] \/ pos[a] \in Awaits]
  /\ UNCHANGED <<variant, envKey, lastFrame, isConnecting, error, isMuted,
                 renderedMuted, calls, pos, attemptVars, wireVars>>

\* ------------------------------------------------------------ toggleMute()
\* A mute that stops the track instead of disabling it.
SetEnabledByStopping(st, a, on) ==
  IF st[a] \in {"live", "muted"}
  THEN [st EXCEPT ![a] = IF on THEN "live" ELSE "stopped"]
  ELSE st

\* audioTrack.enabled = on, for the track of the stream of attempt a (the
\* enabled bit of a stopped track is not kept)
SetEnabled(st, a, on) ==
  IF st[a] \in {"live", "muted"}
  THEN [st EXCEPT ![a] = IF on THEN "live" ELSE "muted"]
  ELSE st

\* toggleMute(): the Console hook flips the flag; the others act only when
\* streamRef holds a stream, and compute the new flag from the isMuted of
\* the render that created the callback.
ToggleMute ==
  /\ IF variant = "Console"
     THEN /\ isMuted' = ~isMuted
          /\ UNCHANGED <<stream, clearSent>>
     ELSE IF streamRef = 0
     THEN UNCHANGED <<isMuted, stream, clearSent>>
     ELSE LET newMuted == ~renderedMuted
              clears == MuteClears(variant) /\ newMuted /\ dcRef # 0
                        /\ chan[dcRef] = "open"
          IN
          /\ clears => clearSent[dcRef] < MaxClears
          /\ stream' = SetEnabled(stream, streamRef, ~newMuted)
          /\ isMuted' = newMuted
          /\ clearSent' =
               IF clears THEN [clearSent EXCEPT ![dcRef] = @ + 1] ELSE clearSent
  /\ UNCHANGED <<variant, envKey, stale, lastFrame, isConnecting, isConnected, error, scenario,
                 history, refVars, trans, chan, sink, closeEvt,
                 renderedMuted, calls, pos, attemptVars,
                 credReq, negReq, cfgSent, greetSent, badSend>>

\* The component re-renders: toggleMute is re-created with the current isMuted.
Render ==
  /\ renderedMuted # isMuted
  /\ renderedMuted' = isMuted
  /\ UNCHANGED <<variant, envKey, stale, lastFrame, stateVars, refVars, objVars, closeEvt, calls,
                 pos, attemptVars, wireVars>>

\* ------------------------------------------------------------ specification
\* connect() called by a caller that keeps its precondition: not while an
\* attempt is in flight or a session is active
ConnectWhenIdle(s) ==
  /\ ~isConnecting
  /\ ~isConnected
  /\ Connect(s)

\* the continuations of connect() and the callbacks of the browser
Steps ==
  \/ \E a \in Attempts, reachable \in BOOLEAN, hasKey \in BOOLEAN,
        upstream \in {"ok", "status", "network"},
        shape \in TokenShapes, expiresAt \in 1..MaxTime, nowMs \in Clocks :
       TokenResponse(a, CredentialFetch(reachable, hasKey, upstream),
                     shape, expiresAt, nowMs)
  \/ \E a \in Attempts, granted \in BOOLEAN : MediaResult(a, granted)
  \/ \E a \in Attempts, ok \in BOOLEAN : OfferDone(a, ok)
  \/ \E a \in Attempts : IceComplete(a)
  \/ \E a \in Attempts : IceTimeout(a)
  \/ \E a \in Attempts, result \in {"ok", "status", "network"}, body \in ErrorBodies :
       NegotiationResponse(a, result, body)
  \/ \E a \in Attempts, ok \in BOOLEAN : RemoteDescDone(a, ok)
  \/ \E a \in Attempts : ChannelOpen(a)
  \/ \E a \in Attempts : RemoteClose(a)
  \/ \E a \in Attempts : OnClose(a)
  \/ \E a \in Attempts : GreetingTimer(a)

\* The connection life cycle under any caller: connect() and disconnect()
\* at any moment, also while an attempt is suspended.
Next ==
  \/ \E s \in Scenarios : Connect(s)
  \/ Steps
  \/ Disconnect

Spec == Init /\ [][Next]_vars

\* The microphone under a caller that keeps the precondition of connect():
\* toggleMute() and re-renders, disconnect() at any moment.
NextSession ==
  \/ \E s \in Scenarios : ConnectWhenIdle(s)
  \/ Steps
  \/ Disconnect
  \/ ToggleMute
  \/ Render

SpecSession == Init /\ [][NextSession]_vars

\* The conversation under the same caller: inbound frames on an open
\* channel, disconnect() at any moment.
NextFrames ==
  \/ \E s \in Scenarios : ConnectWhenIdle(s)
  \/ Steps
  \/ Disconnect
  \/ \E a \in Attempts, m \in Messages : OnMessage(a, m)

SpecFrames == Init /\ [][NextFrames]_vars

\* The life cycle under a caller that keeps the precondition of connect(),
\* where every request that was sent is answered and every callback that is
\* due is run: the promises of connect() settle and the browser delivers its
\* events.  Nothing obliges the caller to call connect() or disconnect().
NextLive ==
  \/ \E s \in Scenarios : ConnectWhenIdle(s)
  \/ Steps
  \/ Disconnect

SpecLive == Init /\ [][NextLive]_vars /\ WF_vars(Steps)

\* ------------------------------------------------------------------ claims
\* the observable phase
Idle == ~isConnecting /\ ~isConnected

\* handles that are not released
TransportLive(a) == trans[a] = "open"
StreamLive(a)    == stream[a] \in {"live", "muted"}
ChannelLive(a)   == chan[a] \in {"connecting", "open"}
SinkLive(a)      == sink[a] = "attached"

\* C1: a connect() called while the phase is Connecting fails at once: it
\* sends no credential and no negotiation request, acquires nothing, and
\* leaves the phase, the refs and the objects of the first attempt as they
\* were.
C1_SecondConnectFailsFast ==
  [][(isConnecting /\ calls' = calls + 1) =>
       /\ pos'[calls'] = "failed"
       /\ credReq' = credReq
       /\ negReq' = negReq
       /\ UNCHANGED <<isConnecting, isConnected, refVars, objVars>>]_vars

\* C2: at most one session is live: never more than one unreleased
\* transport, one unreleased local stream and one unreleased channel.
C2_AtMostOneSession ==
  /\ Cardinality({a \in Attempts : TransportLive(a)}) <= 1
  /\ Cardinality({a \in Attempts : StreamLive(a)}) <= 1
  /\ Cardinality({a \in Attempts : ChannelLive(a)}) <= 1

\* C3: an attempt whose credential had expiry <= clock when it was received
\* sends no negotiation request.
C3_ExpiredNeverNegotiates ==
  \A a \in Attempts : cred[a] = "expired" => negReq[a] = 0

\* C4: session.update is sent on a channel exactly once, in the handler of
\* its open event: after connect() returned, with the channel open and the
\* phase Active, and never in any other step.
C4_ConfigOnceOnOpen ==
  [][\A a \in Attempts :
       /\ cfgSent'[a] # cfgSent[a] =>
            /\ cfgSent[a] = 0 /\ cfgSent'[a] = 1
            /\ pos[a] = "resolved"
            /\ chan[a] = "connecting" /\ chan'[a] = "open"
            /\ isConnected' /\ ~isConnecting'
       /\ (chan[a] # "open" /\ chan'[a] = "open") => cfgSent'[a] = 1
       /\ chan'[a] = "open" => cfgSent'[a] = 1]_vars

\* C4 witness: a channel is open, the phase is Active and one session.update
\* has been sent on it.
C4_Witness ==
  \E a \in Attempts : chan[a] = "open" /\ isConnected /\ ~isConnecting /\ cfgSent[a] = 1

\* C5: when the negotiation request is answered with a non-success status,
\* the tracks the attempt acquired are stopped in the step that resets the
\* phase.
C5_RejectedStopsTracks ==
  [][\A a \in Attempts :
       (pos[a] = "negotiate" /\ pos'[a] = "failed" /\ error' = ErrApi)
         => stream'[a] = "stopped"]_vars

\* C6: when an attempt fails, everything it had acquired is released, and
\* if the phase is then Idle no ref holds a handle.
C6_FailureReleasesAll ==
  [][\A a \in Attempts :
       (pos[a] \in Awaits /\ pos'[a] = "failed") =>
         /\ ~TransportLive(a)' /\ ~StreamLive(a)' /\ ~ChannelLive(a)' /\ ~SinkLive(a)'
         /\ Idle' => (pcRef' = 0 /\ dcRef' = 0 /\ audioRef' = 0 /\ streamRef' = 0)]_vars

\* C7: when an attempt fails, the failure is recorded in error and the phase
\* is Idle.
C7_FailureResetsToIdle ==
  [][\A a \in Attempts :
       (pos[a] # "failed" /\ pos'[a] = "failed") => (error' # NoError /\ Idle')]_vars

\* C8: disconnect() in phase Idle changes no observable field and no handle.
C8_DisconnectIdleNoOp ==
  [][(Idle /\ Disconnect) => UNCHANGED <<stateVars, refVars, objVars>>]_vars

\* C9: disconnect() in phase Connecting or Active ends in Idle with every
\* channel and transport closed, every track stopped, every sink removed, no
\* ref set and an empty transcript.
C9_DisconnectEndsIdle ==
  [][(~Idle /\ Disconnect) =>
       /\ Idle'
       /\ history' = <<>>
       /\ pcRef' = 0 /\ dcRef' = 0 /\ audioRef' = 0 /\ streamRef' = 0
       /\ \A a \in Attempts :
            ~TransportLive(a)' /\ ~StreamLive(a)' /\ ~ChannelLive(a)' /\ ~SinkLive(a)']_vars

\* C10: once disconnect() was called while an attempt was suspended, that
\* attempt acquires nothing more, creates no transport, channel or sink,
\* sends no negotiation request, stores no handle and does not make the
\* phase Active.
C10_StaleContinuationDiscarded ==
  [][\A a \in Attempts :
       stale[a] =>
         /\ trans[a] = "none" => trans'[a] = "none"
         /\ stream[a] = "none" => stream'[a] = "none"
         /\ chan[a] = "none" => chan'[a] = "none"
         /\ sink[a] = "none" => sink'[a] = "none"
         /\ negReq'[a] = negReq[a]
         /\ pcRef' = a => pcRef = a
         /\ dcRef' = a => dcRef = a
         /\ streamRef' = a => streamRef = a
         /\ audioRef' = a => audioRef = a
         /\ chan'[a] = "open" => chan[a] = "open"]_vars

\* C11: with an active session and an open channel, a toggleMute() that
\* follows a toggleMute() into muted (track disabled, flag true) enables the
\* track again, clears the flag and sends no further
\* input_audio_buffer.clear, whether or not the component re-rendered in
\* between.
C11_ToggleBackUnmutes ==
  [][(/\ isConnected /\ dcRef # 0 /\ streamRef # 0
      /\ chan[dcRef] = "open"
      /\ isMuted /\ stream[streamRef] = "muted"
      /\ ToggleMute)
       => (/\ ~isMuted'
           /\ stream'[streamRef] = "live"
           /\ clearSent' = clearSent)]_vars

\* the frames on which JSON.parse throws
MalformedFrames == {x \in Messages : x.type = "malformed"}

\* C12: a frame that is not valid JSON, handed to dc.onmessage of an open
\* channel, changes neither the phase nor the transcript nor the error
\* field, and leaves the channel open, which is all the handler needs to
\* process the next frame.
C12_MalformedFrameDropped ==
  [][\A a \in Attempts : \A m \in MalformedFrames :
       (lastFrame' = m.type /\ OnMessage(a, m)) =>
         /\ UNCHANGED <<isConnecting, isConnected, history, error>>
         /\ chan'[a] = "open"]_vars

\* C12 witness: the last frame handled on an open channel of an active
\* session was not valid JSON.
C12_Witness ==
  lastFrame = "malformed" /\ isConnected /\ \E a \in Attempts : chan[a] = "open"

\* C13: every content-bearing frame handled on an open channel (a message
\* item created with a text or a transcript, an input transcription
\* completed with its transcript, an output text or transcript done with its
\* text) appends exactly one entry at the end of the transcript, with the
\* item's role, user and assistant as speaker, in that order of cases.
C13_OneEntryPerContentEvent ==
  [][\A a \in Attempts : \A m \in Messages :
       LET bearing ==
             \/ m.type = "conversation.item.created"
                  /\ m.itemType = "message" /\ m.field # "none"
             \/ m.type = "input_audio_transcription.completed"
                  /\ m.field = "transcript"
             \/ m.type = "response.text.done" /\ m.field = "text"
             \/ m.type = "response.audio_transcript.done"
                  /\ m.field = "transcript"
           speaker ==
             CASE m.type = "conversation.item.created" -> m.role
               [] m.type = "input_audio_transcription.completed" -> "user"
               [] OTHER -> "assistant"
       IN (bearing /\ lastFrame' = m.type /\ OnMessage(a, m))
            => history' = Append(history, Entry(speaker))]_vars

\* C14: when the negotiation request is answered with a non-success status
\* and a body that reports an expired credential, connect() fails with the
\* expiry error, and that outcome differs from the one a non-success
\* response with any other body gives.
C14_ExpiredRejectionDistinct ==
  [][\A a \in Attempts :
       NegotiationResponse(a, "status", "expired") =>
         /\ error' = ErrApiExpired
         /\ ~NegotiationResponse(a, "status", "other")]_vars

\* C15: a credential response whose token is a string or an object with a
\* value is accepted (connect() goes on to acquire media unless the expiry
\* check stops it); a response with neither makes connect() fail with the
\* token format error, with no stream, no transport and no negotiation
\* request for that attempt.
C15_TokenShapes ==
  [][\A a \in Attempts, shape \in TokenShapes, expiresAt \in 1..MaxTime,
        nowMs \in Clocks :
       TokenResponse(a, "ok", shape, expiresAt, nowMs) =>
         /\ (shape # "missing" /\ ~IsExpired(expiresAt, nowMs)) => pos'[a] = "media"
         /\ shape = "missing" =>
              /\ pos'[a] = "failed"
              /\ error' = ErrTokenFormat
              /\ trans'[a] = "none" /\ stream'[a] = "none" /\ negReq'[a] = 0]_vars

\* C16: GET /api/session answers non-success whenever its API key is missing
\* or the issuing authority answers non-success, so that the credential
\* request then rejects or resolves non-success; and when it does, connect()
\* fails with the fetch rejection or the token fetch error, with no stream,
\* no transport, no channel and no negotiation request for that attempt.
C16_CredentialUnavailable ==
  [][/\ \A upstream \in {"ok", "status", "network"} :
          SessionRoute(FALSE, upstream) = "status"
     /\ \A hasKey \in BOOLEAN : SessionRoute(hasKey, "status") = "status"
     /\ \A reachable \in BOOLEAN, hasKey \in BOOLEAN,
           upstream \in {"ok", "status", "network"} :
          (~reachable \/ ~hasKey \/ upstream # "ok")
            => CredentialFetch(reachable, hasKey, upstream) \in {"status", "network"}
     /\ \A a \in Attempts, result \in {"status", "network"} :
          (/\ pos[a] = "token" /\ pos'[a] # "token"
           /\ \E shape \in TokenShapes, expiresAt \in 1..MaxTime, nowMs \in Clocks :
                TokenResponse(a, result, shape, expiresAt, nowMs))
            => /\ pos'[a] = "failed"
               /\ error' = (IF result = "status" THEN ErrTokenFetch ELSE ErrNetwork)
               /\ ~isConnecting'
               /\ trans'[a] = "none" /\ stream'[a] = "none" /\ chan'[a] = "none"
               /\ negReq'[a] = 0]_vars

\* C16 witness: an attempt has failed on its credential request, which is
\* the only request it sent.
C16_Witness ==
  \E a \in Attempts :
    /\ pos[a] = "failed" /\ error \in {ErrTokenFetch, ErrNetwork}
    /\ credReq[a] = 1 /\ negReq[a] = 0
    /\ trans[a] = "none" /\ stream[a] = "none" /\ chan[a] = "none"

\* C17: isConnected becomes true only in the step in which the channel of
\* the attempt that dcRef holds goes from connecting to open, and that step
\* starts in phase Connecting; no other step sets isConnected.
C17_ActiveOnlyOnChannelOpen ==
  [][(~isConnected /\ isConnected') =>
       /\ isConnecting
       /\ dcRef # 0
       /\ chan[dcRef] = "connecting" /\ chan'[dcRef] = "open"]_vars

\* C18: under SpecLive, whenever isConnecting is true it eventually becomes
\* false: the attempt ends in Active or fails back to Idle.
C18_EventuallyLeavesConnecting == isConnecting ~> ~isConnecting

\* C19: toggleMute() called in phase Idle changes no observable field, no
\* track and sends no message.
C19_ToggleMuteIdleNoOp ==
  [][(Idle /\ ToggleMute) => UNCHANGED <<stateVars, objVars, wireVars>>]_vars

\* C20: an error frame handled on an open channel sets the error field and
\* changes nothing else: the phase, the scenario, the mute flag, the
\* transcript, the refs and the objects are as before, and the channel is
\* still open for the next frame.
C20_ErrorFrameSetsErrorOnly ==
  [][\A a \in Attempts : \A m \in {x \in Messages : x.type = "error"} :
       (lastFrame' = m.type /\ OnMessage(a, m)) =>
         /\ error' = ErrServer
         /\ UNCHANGED <<isConnecting, isConnected, isMuted, scenario, history,
                        refVars, objVars>>
         /\ chan'[a] = "open"]_vars

C22_ToggleMuteFrame ==
  [][(isConnected /\ ToggleMute) =>
       /\ UNCHANGED <<isConnecting, isConnected, error, scenario, history,
                      refVars, trans, chan, sink>>
       /\ \A a \in Attempts :
            \/ stream'[a] = stream[a]
            \/ {stream[a], stream'[a]} = {"live", "muted"}]_vars

\* C22 witness: in an active session toggleMute() has disabled the track of
\* the stream that streamRef holds.
C22_Witness ==
  /\ isConnected /\ isMuted /\ streamRef # 0
  /\ stream[streamRef] = "muted"
  /\ dcRef # 0 /\ chan[dcRef] = "open"

\* C23: while the channel that dcRef holds is open, a toggleMute() that
\* takes the mute flag from false to true sends exactly one
\* input_audio_buffer.clear on it, and one that takes the flag from true to
\* false sends none.
C23_ClearOnMuteOnly ==
  [][(ToggleMute /\ dcRef # 0 /\ chan[dcRef] = "open") =>
       /\ (~isMuted /\ isMuted') =>
            clearSent' = [clearSent EXCEPT ![dcRef] = @ + 1]
       /\ (isMuted /\ ~isMuted') => clearSent' = clearSent]_vars

\* the types whose case only logs or breaks, and a type that has no case
IgnoredTypes ==
  {"session.created", "session.updated", "response.text.delta",
   "response.audio_transcript.delta", "rate_limits.updated"}

\* C24: a frame that is an incremental delta, a session.created or
\* session.updated acknowledgement, or of a type no case handles, changes no
\* field of the state, no ref, no object and sends nothing.
C24_IgnoredFramesChangeNothing ==
  [][\A a \in Attempts :
       \A m \in {x \in Messages : x.type \in IgnoredTypes} :
         (lastFrame' = m.type /\ OnMessage(a, m))
           => UNCHANGED <<stateVars, refVars, objVars, wireVars>>]_vars

\* C24 witness: the last frame handled in an active session was a delta, an
\* acknowledgement or of an unhandled type.
C24_Witness ==
  /\ lastFrame \in IgnoredTypes
  /\ isConnected
  /\ \E a \in Attempts : chan[a] = "open"

\* C25: in every step the transcript stays as it is, or gets exactly one
\* entry appended at its end, or becomes empty; no entry is changed, removed
\* alone or moved.
C25_LogAppendOnlyOrCleared ==
  [][\/ history' = history
     \/ history' = <<>>
     \/ /\ Len(history') = Len(history) + 1
        /\ SubSeq(history', 1, Len(history)) = history]_vars

\* C25 witness: the transcript holds two entries of different speakers,
\* appended one after the other.
C25_Witness ==
  /\ Len(history) = 2
  /\ history[1].role # history[2].role
  /\ isConnected

\* C26: every entry of the transcript has speaker user or assistant and a
\* text that is not empty.
C26_EntriesWellFormed ==
  \A i \in 1..Len(history) :
    history[i].role \in {"user", "assistant"} /\ history[i].content # ""

\* C27: in phase Idle, a callback of an attempt whose channel has been
\* closed (its open event, its close event, its greeting timeout) changes
\* no field of the state, sends no frame and does not call send on the
\* closed channel.
C27_StaleCallbacksNoOp ==
  [][\A a \in Attempts :
       (/\ Idle /\ chan[a] = "closed"
        /\ (GreetingTimer(a) \/ OnClose(a) \/ ChannelOpen(a)))
         => /\ UNCHANGED <<stateVars, cfgSent, greetSent, clearSent>>
            /\ badSend'[a] = badSend[a]]_vars

\* C28: an attempt that has requested a credential and is under way holds a
\* transport, a stream or a channel only if it holds a credential that it
\* received with a usable token and an expiry in the future.
C28_CredentialBeforeTransport ==
  \A a \in Attempts :
    (/\ credReq[a] > 0
     /\ pos[a] \in Awaits
     /\ (trans[a] # "none" \/ stream[a] # "none" \/ chan[a] # "none"))
      => cred[a] = "valid"

\* C29: an attempt sends its negotiation request only in the step that ends
\* its wait for candidate gathering, by the gathering being complete or by
\* the timeout; never straight after the local offer was set.
C29_NegotiateAfterGatheringOrTimeout ==
  [][\A a \in Attempts :
       negReq'[a] # negReq[a] =>
         /\ pos[a] = "ice"
         /\ (IceComplete(a) \/ IceTimeout(a))]_vars

\* C30: every connect() call that was made has sent exactly one credential
\* request and at most one negotiation request.
C30_OneCredentialRequestPerCall ==
  \A a \in 1..calls : credReq[a] = 1 /\ negReq[a] <= 1

\* C31: disconnect() releases in the order of ReleaseOrder (the control
\* channel first, then the transport, then the local tracks, then the
\* playback sink), every track is stopped and every sink removed by then, the
\* transcript is cleared, and the call ends with the phase Idle.
C31_ReleaseInOrderThenIdle ==
  [][Disconnect =>
       /\ ReleaseRun(Handles).log =
            SelectSeq(ReleaseOrder,
                      LAMBDA k : \/ k = "channel" /\ dcRef # 0
                                 \/ k = "transport" /\ pcRef # 0
                                 \/ k = "tracks" /\ streamRef # 0
                                 \/ k = "sink" /\ audioRef # 0)
       /\ \A a \in Attempts : ~StreamLive(a)' /\ ~SinkLive(a)'
       /\ history' = <<>>
       /\ Idle']_vars

\* C32: when the capture of local audio is refused, connect() fails with the
\* media error; that attempt has no control channel, has sent no offer to the
\* model endpoint, and the transport and playback sink it created before the
\* capture request are released.
C32_MediaDeniedReleases ==
  [][\A a \in Attempts :
       (pos[a] = "media" /\ pos'[a] = "failed" /\ error' = ErrMedia)
         => /\ chan'[a] = "none"
            /\ negReq'[a] = 0
            /\ ~TransportLive(a)'
            /\ ~SinkLive(a)']_vars

\* C33: the configuration message sent when a channel opens carries the
\* instructions of the scenario given to the connect() call that created the
\* channel, which is the observable current scenario at that moment, the
\* voice, the transcription model, and server_vad turn detection with
\* threshold 0.5, prefix padding 300 ms and silence duration 200 ms.
C33_ConfigCarriesScenario ==
  [][\A a \in Attempts :
       cfgSent'[a] # cfgSent[a]
         => LET cfg == SessionConfig(variant, scen[a]).session
            IN /\ scen[a] = scenario
               /\ cfg.instructions = Instructions(scenario)
               /\ cfg.voice = "alloy"
               /\ cfg.input_audio_transcription = [model |-> "whisper-1"]
               /\ cfg.turn_detection =
                    [type |-> "server_vad", threshold |-> "0.5",
                     prefix_padding_ms |-> 300,
                     silence_duration_ms |-> 200]]_vars

\* C34: isConnecting and isConnected are never both true.
C34_NotConnectingAndConnected == ~(isConnecting /\ isConnected)

\* C35: whenever isConnected is true, the transport and the control channel
\* of the current session are held by the refs and are open (a channel the
\* remote side has just closed counts as open until its close event, if the
\* hook listens for one, has been delivered).
C35_ConnectedHoldsOpenHandles ==
  isConnected => /\ pcRef # 0 /\ trans[pcRef] = "open"
                 /\ dcRef # 0
                 /\ (chan[dcRef] = "open" \/ closeEvt[dcRef])

\* C37: no outbound message (configuration, buffer clear, greeting and
\* response request) is ever sent on a channel that is not open.
C37_NoSendOnClosedChannel == \A a \in Attempts : ~badSend[a]

\* C36: whenever a local media stream is held, isMuted is true exactly when
\* its track is disabled.
C36_MutedIffTrackDisabled ==
  (streamRef # 0 /\ StreamLive(streamRef))
    => (isMuted <=> stream[streamRef] = "muted")

\* C38: after disconnect() the observable state equals the initial state:
\* not connecting, not connected, no error, not muted, no scenario and an
\* empty transcript.
C38_DisconnectRestoresInitial ==
  [][Disconnect =>
       /\ ~isConnecting' /\ ~isConnected'
       /\ error' = NoError
       /\ ~isMuted'
       /\ scenario' = NoScenario
       /\ history' = <<>>]_vars

====
